---- MODULE Spec2Model ----
(***************************************************************************)
(* Gourmle (src/app.py): a Streamlit page on which the user guesses the    *)
(* country of a national dish in at most five attempts.  The script is     *)
(* re-run from top to bottom on every page event; the round lives in       *)
(* st.session_state (answer_row, attempts, finished).                      *)
(*                                                                         *)
(* Numbers.  Coordinates are whole degrees on a 15-degree grid.  An angle  *)
(* handed to sin/cos ("radians" in the source) is an integer count of      *)
(* 7.5-degree steps; sin/cos values are scaled by Scale; the angle that    *)
(* atan2 returns is in units of 1/Scale radian; a bearing is in hundredths *)
(* of a degree; a distance is in whole kilometres.                         *)
(***************************************************************************)
EXTENDS Integers, Sequences, FiniteSets, TLC

\* number of dataset rows the loaded table holds
MaxRows == 4

\* fixed-point scale of sin, cos, sqrt and of the radians atan2 returns
Scale == 10000

\* pi in units of 1/Scale radian
Pi == 31416

(***************************************************************************)
(* math library                                                            *)
(***************************************************************************)
\* sin of k steps of 7.5 degrees, k in 0..12, scaled by Scale
SinTable == <<0, 1305, 2588, 3827, 5000, 6088, 7071, 7934, 8660, 9239, 9659, 9914, 10000>>

\* math.radians: degrees to angle steps (7.5 degrees each)
radians(deg) == (2 * deg) \div 15

\* math.sin of an angle in steps
sin(a) ==
    LET m == a % 48
        q == IF m <= 12 THEN m ELSE IF m <= 24 THEN 24 - m
             ELSE IF m <= 36 THEN m - 24 ELSE 48 - m
        v == IF q = 0 THEN 0 ELSE SinTable[q + 1]
    IN  IF m <= 24 THEN v ELSE -v

\* math.cos of an angle in steps
cos(a) == sin(a + 12)

RECURSIVE NewtonSqrt(_, _)
NewtonSqrt(n, r) ==
    LET r2 == (r + n \div r) \div 2
    IN  IF r2 >= r THEN r ELSE NewtonSqrt(n, r2)

\* math.sqrt of v/Scale, scaled by Scale
sqrt(v) == IF v <= 0 THEN 0 ELSE NewtonSqrt(v * Scale, v * Scale)

\* atan(2^-i) for i = 0..AtanIters, in units of 1/Scale radian
AtanTable == <<7854, 4636, 2450, 1244, 624, 312, 156, 78, 39, 20, 10, 5, 2, 1>>

\* last index of the arctangent recurrence
AtanIters == Len(AtanTable) - 1

Pow2(i) == 2 ^ i

\* truncating division (towards zero), as a shift of a signed magnitude
Shift(v, i) == IF v >= 0 THEN v \div Pow2(i) ELSE -((-v) \div Pow2(i))

RECURSIVE Vectoring(_, _, _, _)
Vectoring(x, y, z, i) ==
    IF i > AtanIters \/ y = 0 THEN z
    ELSE IF y > 0
         THEN Vectoring(x + Shift(y, i), y - Shift(x, i), z + AtanTable[i + 1], i + 1)
         ELSE Vectoring(x - Shift(y, i), y + Shift(x, i), z - AtanTable[i + 1], i + 1)

\* math.atan2(y, x): the angle of the vector (x, y), in (-Pi, Pi]
atan2(y, x) ==
    IF x = 0 /\ y = 0 THEN 0
    ELSE IF x = 0 THEN (IF y > 0 THEN Pi \div 2 ELSE -(Pi \div 2))
    ELSE IF x > 0 THEN Vectoring(x * 100, y * 100, 0, 0)
    ELSE IF y >= 0 THEN Pi + Vectoring((-x) * 100, (-y) * 100, 0, 0)
    ELSE Vectoring((-x) * 100, (-y) * 100, 0, 0) - Pi

\* math.degrees: 1/Scale radians to hundredths of a degree
degrees(r) ==
    IF r >= 0 THEN (r * 18000 + Pi \div 2) \div Pi
    ELSE -(((-r) * 18000 + Pi \div 2) \div Pi)

(***************************************************************************)
(* Funciones auxiliares                                                    *)
(***************************************************************************)
\* Radio de la Tierra en km
R == 6371

haversine(lat1, lon1, lat2, lon2) ==
    LET phi1 == radians(lat1)
        phi2 == radians(lat2)
        dphi == radians(lat2 - lat1)
        dlambda == radians(lon2 - lon1)
        s1 == sin(dphi \div 2)
        s2 == sin(dlambda \div 2)
        a == (s1 * s1) \div Scale
             + ((((cos(phi1) * cos(phi2)) \div Scale) * ((s2 * s2) \div Scale)) \div Scale)
    IN  (2 * R * atan2(sqrt(a), sqrt(Scale - a))) \div Scale

\* the value None, kept apart from every bearing (a bearing is >= 0)
None == -1

\* None as soon as one coordinate agrees
calculate_bearing_either(lat1, lon1, lat2, lon2) ==
    IF lat1 = lat2 \/ lon1 = lon2 THEN None
    ELSE LET phi1 == radians(lat1)
             phi2 == radians(lat2)
             dlambda == radians(lon2 - lon1)
             x == (sin(dlambda) * cos(phi2)) \div Scale
             y == (cos(phi1) * sin(phi2)) \div Scale
                  - ((((sin(phi1) * cos(phi2)) \div Scale) * cos(dlambda)) \div Scale)
             bearing == degrees(atan2(x, y))
         IN  (bearing + 18000) % 36000

calculate_bearing(lat1, lon1, lat2, lon2) ==
    IF lat1 = lat2 /\ lon1 = lon2 THEN None
    ELSE LET phi1 == radians(lat1)
             phi2 == radians(lat2)
             dlambda == radians(lon2 - lon1)
             x == (sin(dlambda) * cos(phi2)) \div Scale
             y == (cos(phi1) * sin(phi2)) \div Scale
                  - ((((sin(phi1) * cos(phi2)) \div Scale) * cos(dlambda)) \div Scale)
             bearing == degrees(atan2(x, y))
         IN  (bearing + 18000) % 36000

\* the eight arrows, clockwise from north, and the check mark
dirs == <<"N", "NE", "E", "SE", "S", "SW", "W", "NW">>

\* the sectors not centred on the directions
bearing_to_cardinal_uncentred(bearing) ==
    IF bearing = None THEN "done"
    ELSE LET ix == (bearing \div 4500) % 8
         IN  dirs[ix + 1]

bearing_to_cardinal(bearing) ==
    IF bearing = None THEN "done"
    ELSE LET ix == ((bearing + 2250) \div 4500) % 8
         IN  dirs[ix + 1]

(***************************************************************************)
(* Carga de datos                                                          *)
(***************************************************************************)
\* rows of the CSV: Country, Dish, latitud, longitud
Table ==
    << [Country |-> "Japan",  Dish |-> "Sushi",       latitud |-> 30,  longitud |-> 135],
       [Country |-> "France", Dish |-> "Pot-au-feu",  latitud |-> 45,  longitud |-> 0],
       [Country |-> "Italy",  Dish |-> "Pasta",       latitud |-> 45,  longitud |-> 15],
       [Country |-> "Spain",  Dish |-> "Paella",      latitud |-> 45,  longitud |-> 0],
       [Country |-> "Peru",   Dish |-> "Ceviche",     latitud |-> -15, longitud |-> -75] >>

load_data == SubSeq(Table, 1, MaxRows)

df == load_data

\* the order of str values under <
Lexicon == <<"France", "Italy", "Japan", "Peru", "Spain">>

Rank(c) == CHOOSE i \in 1..Len(Lexicon) : Lexicon[i] = c

\* df['Country'].unique()
unique == {df[i].Country : i \in 1..Len(df)}

sorted(S) ==
    [i \in 1..Cardinality(S) |->
        CHOOSE c \in S : Cardinality({d \in S : Rank(d) < Rank(c)}) = i - 1]

\* the options of the selectbox
Options == sorted(unique)

\* df.loc[df['Country'] == guess, col].iloc[0]: the first row of that country
FirstRow(guess) ==
    df[CHOOSE i \in 1..Len(df) :
          /\ df[i].Country = guess
          /\ \A j \in 1..(i - 1) : df[j].Country # guess]

(***************************************************************************)
(* State                                                                   *)
(***************************************************************************)
VARIABLES
    session_state,  \* st.session_state: a function on the keys it holds
    pc,             \* position of the script run, "idle" between runs
    button,         \* the button whose click started this run, or "none"
    selectbox,      \* stored value of the country selectbox, or NoValue
    page,           \* the widgets on the page
    response,       \* what the Wikipedia request of this run produced
    img_url,        \* result of get_first_image_from_wikipedia in this run
    dish_label,     \* how the dish is shown: "image", "text" or "none"
    message,        \* terminal message: <<"none">>, <<"success">> or <<"lose", c>>
    exception,      \* the run ended in an uncaught exception
    geo,            \* a call of a GeoMath function: its arguments and result
    store,          \* st.session_state of every session of the server
    runs,           \* the script run of every session: position and button
    clicks          \* button clicks made so far, over all sessions

\* the page and the run of the session followed step by step
session_vars == <<session_state, pc, button, selectbox, page, response, img_url,
                  dish_label, message, exception>>

\* what a step of that session leaves alone
outside == <<geo, store, runs, clicks>>

vars == <<session_vars, geo, store, runs, clicks>>

NoValue == "NoValue"

\* st.session_state without any key
Empty == [k \in {} |-> 0]

\* del st.session_state[key] for every key of K
Delete(ss, K) == [k \in (DOMAIN ss) \ K |-> ss[k]]

Rows == {df[i] : i \in 1..Len(df)}

\* the round set up again on every run
NeedsInit_always(ss) == TRUE

\* line 60
NeedsInit(ss) == "answer_row" \notin DOMAIN ss

\* lines 61-63
InitialState(row) == [answer_row |-> row, attempts |-> <<>>, finished |-> FALSE]

\* the guess block entered whatever the finished flag says
Active_always(ss) == TRUE

\* line 115
Active(ss) == ~ss.finished

\* the distance tested before the correctness
Color_distance_first(correct, dist) ==
    IF dist < 5000 THEN "orange" ELSE IF correct THEN "green" ELSE "red"

\* line 126
Color(correct, dist) ==
    IF correct THEN "green" ELSE IF dist < 5000 THEN "orange" ELSE "red"

\* lines 118-133: the attempt recorded for a guess
NewAttempt(answer_row, guess) ==
    LET g == FirstRow(guess)
        dist == haversine(answer_row.latitud, answer_row.longitud, g.latitud, g.longitud)
        bearing == calculate_bearing(answer_row.latitud, answer_row.longitud,
                                     g.latitud, g.longitud)
        direction == bearing_to_cardinal(bearing)
        correct == (guess = answer_row.Country)
        color == Color(correct, dist)
    IN  [guess |-> guess, distance |-> dist, direction |-> direction,
         correct |-> correct, color |-> color]

\* lines 118-133 for every target row and every option of the selectbox,
\* evaluated once
AttemptFor == [answer_row \in Rows, guess \in unique |-> NewAttempt(answer_row, guess)]

\* the round ended one attempt late
RoundOver_late(correct, n) == correct \/ n > 5

\* the round ended by the attempt count only
RoundOver_count_only(correct, n) == n >= 5

\* line 135
RoundOver(correct, n) == correct \/ n >= 5

\* the new attempt put in front of the earlier ones
AppendAttempt_front(attempts, att) == <<att>> \o attempts

\* line 127: st.session_state.attempts.append
AppendAttempt(attempts, att) == Append(attempts, att)

\* lines 118-136: the round after the guess is submitted
Submit(ss, guess) ==
    LET att == AttemptFor[ss.answer_row, guess]
        attempts == AppendAttempt(ss.attempts, att)
    IN  [ss EXCEPT !.attempts = attempts,
                   !.finished = IF RoundOver(att.correct, Len(attempts))
                                THEN TRUE ELSE @]

\* line 140
NumContainers == 5

\* success only when every attempt is correct
TerminalMessage_all(ss) ==
    IF ss.finished
    THEN IF \A i \in 1..Len(ss.attempts) : ss.attempts[i].correct
         THEN <<"success">>
         ELSE <<"lose", ss.answer_row.Country>>
    ELSE <<"none">>

\* lines 156-161
TerminalMessage(ss) ==
    IF ss.finished
    THEN IF \E i \in 1..Len(ss.attempts) : ss.attempts[i].correct
         THEN <<"success">>
         ELSE <<"lose", ss.answer_row.Country>>
    ELSE <<"none">>

\* the Play again button rendered in every run
ShowsRestart_always(ss) == TRUE

\* line 156, guarding line 163
ShowsRestart(ss) == ss.finished

\* no key deleted on Play again
ResetKeys_none == {}

\* line 164
ResetKeys == {"answer_row", "attempts", "finished"}

\* what the request to the Wikipedia API can produce (lines 86-87)
Responses == {"image", "no_infobox", "no_parse", "not_json", "conn_error"}

\* lines 78-102: the URL returned, or the exception that escapes
get_first_image_from_wikipedia(resp) ==
    CASE resp = "conn_error" -> [raised |-> TRUE,  url |-> ""]
      [] resp = "not_json"   -> [raised |-> TRUE,  url |-> ""]
      [] resp = "no_parse"   -> [raised |-> FALSE, url |-> ""]
      [] resp = "no_infobox" -> [raised |-> FALSE, url |-> ""]
      [] resp = "image"      -> [raised |-> FALSE, url |-> "https://img"]

\* line 116: the value st.selectbox returns, its first option by default
CurrentGuess == IF selectbox = NoValue THEN Options[1] ELSE selectbox

\* the browser sessions of the server
Sessions == {"s1", "s2"}

\* no GeoMath call under way
NoCall == [fn |-> "none", args |-> <<>>, result |-> <<>>]

\* a session opens: nothing in st.session_state, the first run about to start
SessionInit ==
    /\ session_state = Empty
    /\ pc = "start"
    /\ button = "none"
    /\ selectbox = NoValue
    /\ page = {}
    /\ response = "none"
    /\ img_url = ""
    /\ dish_label = "none"
    /\ message = <<"none">>
    /\ exception = FALSE

\* every session opens the same way
ServerInit ==
    /\ store = [s \in Sessions |-> Empty]
    /\ runs = [s \in Sessions |-> [pc |-> "start", button |-> "none"]]
    /\ clicks = 0

Init ==
    /\ SessionInit
    /\ geo = NoCall
    /\ ServerInit

(***************************************************************************)
(* Page events: each starts a run of the script                            *)
(***************************************************************************)
Rerun ==
    /\ pc = "idle"
    /\ pc' = "start"
    /\ button' = "none"
    /\ UNCHANGED <<session_state, selectbox, page, response, img_url,
                   dish_label, message, exception>>
    /\ UNCHANGED outside

SelectCountry ==
    /\ pc = "idle"
    /\ "selectbox" \in page
    /\ \E c \in unique :
          /\ c # selectbox
          /\ selectbox' = c
    /\ pc' = "start"
    /\ button' = "none"
    /\ UNCHANGED <<session_state, page, response, img_url, dish_label,
                   message, exception>>
    /\ UNCHANGED outside

ClickAdivinar ==
    /\ pc = "idle"
    /\ "Adivinar" \in page
    /\ pc' = "start"
    /\ button' = "Adivinar"
    /\ UNCHANGED <<session_state, selectbox, page, response, img_url,
                   dish_label, message, exception>>
    /\ UNCHANGED outside

ClickPlayAgain ==
    /\ pc = "idle"
    /\ "Play again" \in page
    /\ pc' = "start"
    /\ button' = "Play again"
    /\ UNCHANGED <<session_state, selectbox, page, response, img_url,
                   dish_label, message, exception>>
    /\ UNCHANGED outside

(***************************************************************************)
(* One run of the script                                                   *)
(***************************************************************************)
\* lines 57-76: a new run clears the page; the round is set up if absent
StartRun ==
    /\ pc = "start"
    /\ IF NeedsInit(session_state)
       THEN \E row \in Rows : session_state' = InitialState(row)
       ELSE UNCHANGED session_state
    /\ pc' = "fetch"
    /\ page' = {}
    /\ response' = "none"
    /\ img_url' = ""
    /\ dish_label' = "none"
    /\ message' = <<"none">>
    /\ exception' = FALSE
    /\ UNCHANGED <<button, selectbox>>
    /\ UNCHANGED outside

\* line 104 calling line 86: the request is sent, without a timeout
CallFetch ==
    /\ pc = "fetch"
    /\ pc' = "waiting"
    /\ UNCHANGED <<session_state, button, selectbox, page, response, img_url,
                   dish_label, message, exception>>
    /\ UNCHANGED outside

\* lines 86-104: the request returns or raises
Response ==
    /\ pc = "waiting"
    /\ \E resp \in Responses :
          LET res == get_first_image_from_wikipedia(resp)
          IN  /\ response' = resp
              /\ img_url' = res.url
              /\ exception' = res.raised
              /\ pc' = IF res.raised THEN "idle" ELSE "show"
              /\ selectbox' = IF res.raised THEN NoValue ELSE selectbox
    /\ UNCHANGED <<session_state, button, page, dish_label, message>>
    /\ UNCHANGED outside

\* lines 106-112
ShowDish ==
    /\ pc = "show"
    /\ dish_label' = IF img_url # "" THEN "image" ELSE "text"
    /\ pc' = "guess"
    /\ UNCHANGED <<session_state, button, selectbox, page, response, img_url,
                   message, exception>>
    /\ UNCHANGED outside

\* lines 115-136
GuessBlock ==
    /\ pc = "guess"
    /\ IF Active(session_state)
       THEN LET guess == CurrentGuess
            IN  /\ selectbox' = guess
                /\ page' = page \cup {"selectbox", "Adivinar"}
                /\ IF button = "Adivinar"
                   THEN session_state' = Submit(session_state, guess)
                   ELSE UNCHANGED session_state
       ELSE /\ selectbox' = NoValue
            /\ UNCHANGED <<session_state, page>>
    /\ pc' = "render"
    /\ UNCHANGED <<button, response, img_url, dish_label, message, exception>>
    /\ UNCHANGED outside

\* lines 139-161
Render ==
    /\ pc = "render"
    /\ IF Len(session_state.attempts) > NumContainers
       THEN /\ exception' = TRUE
            /\ pc' = "idle"
            /\ UNCHANGED message
       ELSE /\ message' = TerminalMessage(session_state)
            /\ pc' = "final"
            /\ UNCHANGED exception
    /\ UNCHANGED <<session_state, button, selectbox, page, response, img_url,
                   dish_label>>
    /\ UNCHANGED outside

\* lines 163-166
Final ==
    /\ pc = "final"
    /\ IF ShowsRestart(session_state)
       THEN /\ page' = page \cup {"Play again"}
            /\ IF button = "Play again"
               THEN /\ session_state' = Delete(session_state, ResetKeys)
                    /\ pc' = "start"
                    /\ button' = "none"
               ELSE /\ pc' = "idle"
                    /\ UNCHANGED <<session_state, button>>
       ELSE /\ pc' = "idle"
            /\ UNCHANGED <<session_state, button, page>>
    /\ UNCHANGED <<selectbox, response, img_url, dish_label, message, exception>>
    /\ UNCHANGED outside

ScriptStep == StartRun \/ CallFetch \/ ShowDish \/ GuessBlock \/ Render \/ Final

Next ==
    \/ Rerun
    \/ SelectCountry
    \/ ClickAdivinar
    \/ ClickPlayAgain
    \/ StartRun
    \/ CallFetch
    \/ Response
    \/ ShowDish
    \/ GuessBlock
    \/ Render
    \/ Final

Spec == Init /\ [][Next]_vars

\* the interpreter keeps running the script; nothing makes the request return
FairSpec == Spec /\ WF_vars(ScriptStep)

(***************************************************************************)
(* GeoMath called on its own: one call per behaviour, over a grid of       *)
(* points and over every bearing of [0, 360) in hundredths of a degree     *)
(***************************************************************************)
Lats == {15 * k : k \in -6..6}

Lons == {30 * k : k \in -6..6}

\* the bearings of [0, 360), in hundredths of a degree
Bearings == 0..35999

\* a call about to be made: its arguments come from the grid, or from the
\* bearings and None
GeoInit ==
    /\ SessionInit
    /\ ServerInit
    /\ \/ \E lat1 \in Lats, lon1 \in Lons, lat2 \in Lats, lon2 \in Lons :
             geo = [fn |-> "calculate_bearing",
                    args |-> <<lat1, lon1, lat2, lon2>>, result |-> <<>>]
       \/ \E b \in Bearings \cup {None} :
             geo = [fn |-> "bearing_to_cardinal", args |-> <<b>>, result |-> <<>>]

CallBearing ==
    /\ geo.fn = "calculate_bearing"
    /\ geo.result = <<>>
    /\ geo' = [geo EXCEPT !.result =
                  <<calculate_bearing(geo.args[1], geo.args[2], geo.args[3], geo.args[4])>>]
    /\ UNCHANGED <<session_vars, store, runs, clicks>>

CallCardinal ==
    /\ geo.fn = "bearing_to_cardinal"
    /\ geo.result = <<>>
    /\ geo' = [geo EXCEPT !.result = <<bearing_to_cardinal(geo.args[1])>>]
    /\ UNCHANGED <<session_vars, store, runs, clicks>>

GeoNext == CallBearing \/ CallCardinal

GeoSpec == GeoInit /\ [][GeoNext]_vars

(***************************************************************************)
(* Several sessions on one server.  Each session runs the script in its    *)
(* own thread, so the steps of their runs interleave.  Of a run only the   *)
(* steps that touch st.session_state are kept: lines 60-63, 115-136 and    *)
(* 156-166.                                                                *)
(***************************************************************************)
\* button clicks followed, over all sessions
MaxClicks == 3

\* one st.session_state for the whole server
Slot_shared(s) == "s1"

\* the st.session_state a run of session s reads and writes: its own
Slot(s) == s

\* a page event of session s; the page offers the guess button once a round
\* exists and the Play again button once it is finished
SessionEvent(s) ==
    /\ runs[s].pc = "idle"
    /\ \E b \in {"none", "Adivinar", "Play again"} :
          /\ b # "none" => clicks < MaxClicks
          /\ b = "Play again" => store[Slot(s)].finished
          /\ runs' = [runs EXCEPT ![s] = [pc |-> "start", button |-> b]]
          /\ clicks' = IF b = "none" THEN clicks ELSE clicks + 1
    /\ UNCHANGED <<session_vars, geo, store>>

\* lines 60-63 in the run of session s
SessionStart(s) ==
    /\ runs[s].pc = "start"
    /\ IF NeedsInit(store[Slot(s)])
       THEN \E row \in Rows : store' = [store EXCEPT ![Slot(s)] = InitialState(row)]
       ELSE UNCHANGED store
    /\ runs' = [runs EXCEPT ![s].pc = "guess"]
    /\ UNCHANGED <<session_vars, geo, clicks>>

\* lines 115-136 in the run of session s
SessionGuess(s) ==
    /\ runs[s].pc = "guess"
    /\ IF Active(store[Slot(s)]) /\ runs[s].button = "Adivinar"
       THEN \E guess \in unique :
               store' = [store EXCEPT ![Slot(s)] = Submit(store[Slot(s)], guess)]
       ELSE UNCHANGED store
    /\ runs' = [runs EXCEPT ![s].pc = "final"]
    /\ UNCHANGED <<session_vars, geo, clicks>>

\* lines 156-166 in the run of session s
SessionFinal(s) ==
    /\ runs[s].pc = "final"
    /\ IF ShowsRestart(store[Slot(s)]) /\ runs[s].button = "Play again"
       THEN /\ store' = [store EXCEPT ![Slot(s)] = Delete(store[Slot(s)], ResetKeys)]
            /\ runs' = [runs EXCEPT ![s] = [pc |-> "start", button |-> "none"]]
       ELSE /\ runs' = [runs EXCEPT ![s].pc = "idle"]
            /\ UNCHANGED store
    /\ UNCHANGED <<session_vars, geo, clicks>>

ServerNext ==
    \E s \in Sessions :
        \/ SessionEvent(s)
        \/ SessionStart(s)
        \/ SessionGuess(s)
        \/ SessionFinal(s)

ServerSpec == Init /\ [][ServerNext]_vars

(***************************************************************************)
(* Properties                                                              *)
(***************************************************************************)
\* the round exists: lines 61-63 have run and Play again has not deleted it
HasRound == {"answer_row", "attempts", "finished"} \subseteq DOMAIN session_state

Attempts == session_state.attempts

Finished == session_state.finished

Target == session_state.answer_row

LastAttempt == Attempts[Len(Attempts)]

AllIncorrect == \A i \in 1..Len(Attempts) : ~Attempts[i].correct

\* C1: in every state of a session that holds a round, finished is true
\* exactly when the attempts are non-empty with the last one correct, or
\* there are exactly 5 attempts.
C1_FinishedIff ==
    HasRound =>
        (Finished <=> \/ Len(Attempts) > 0 /\ LastAttempt.correct
                      \/ Len(Attempts) = 5)

\* a round lost on the fifth attempt
C1_Witness ==
    HasRound /\ Finished /\ Len(Attempts) = 5 /\ AllIncorrect /\ pc = "idle"

\* C2: the attempts list never holds more than 5 attempts.
C2_AtMostFive == HasRound => Len(Attempts) <= 5

\* five attempts recorded and the page rendered
C2_Witness == HasRound /\ Len(Attempts) = 5 /\ pc = "final"

\* C3: once 5 incorrect attempts are recorded the round is finished, and no
\* further attempt is appended for as long as the round is not reset.
C3_NoSixth ==
    /\ []((HasRound /\ Len(Attempts) = 5 /\ AllIncorrect) => Finished)
    /\ [][(HasRound /\ Len(Attempts) = 5 /\ AllIncorrect /\ HasRound')
             => session_state'.attempts = Attempts]_vars

\* a sixth submission arrived after 5 incorrect ones and was passed over
C3_Witness ==
    /\ HasRound /\ Len(Attempts) = 5 /\ AllIncorrect /\ Finished
    /\ button = "Adivinar" /\ pc = "render" /\ "Adivinar" \notin page

\* C4: in an active round with fewer than 5 attempts, the guess block run for
\* a click on the target's country appends one attempt that is correct and
\* green, and sets finished in that same step.
C4_CorrectFinishes ==
    [][(/\ pc = "guess" /\ button = "Adivinar"
        /\ ~Finished /\ Len(Attempts) < 5
        /\ CurrentGuess = Target.Country)
         => (/\ session_state'.finished
             /\ Len(session_state'.attempts) = Len(Attempts) + 1
             /\ session_state'.attempts[Len(Attempts) + 1].correct
             /\ session_state'.attempts[Len(Attempts) + 1].color = "green")]_vars

\* a round won on the fifth attempt
C4_Witness ==
    /\ HasRound /\ Finished /\ Len(Attempts) = 5
    /\ LastAttempt.correct /\ LastAttempt.color = "green"

\* C5: a run started by a click on the guess button while the round is
\* finished changes nothing of the round (target, attempts, finished).
C5_FinishedGuessNoOp ==
    [][(HasRound /\ Finished /\ button = "Adivinar")
         => session_state' = session_state]_vars

\* the guess button of the finishing run was clicked again: the block is skipped
C5_Witness ==
    /\ HasRound /\ Finished /\ button = "Adivinar"
    /\ pc = "render" /\ "Adivinar" \notin page

PlayAgainPressed ==
    pc = "final" /\ button = "Play again" /\ HasRound /\ Finished

\* C6: Play again on a finished round deletes the round and starts a new
\* run, whose first step sets attempts to the empty sequence, finished to
\* false and the target to some row of the dataset.
C6_PlayAgainResets ==
    [][/\ PlayAgainPressed => (session_state' = Empty /\ pc' = "start")
       /\ (pc = "start" /\ ~HasRound)
            => (/\ DOMAIN session_state' = {"answer_row", "attempts", "finished"}
                /\ session_state'.attempts = <<>>
                /\ session_state'.finished = FALSE
                /\ session_state'.answer_row \in Rows)]_vars

\* the round was deleted by Play again: the run that follows sets up a new one
C6_Witness ==
    pc = "start" /\ session_state = Empty /\ message # <<"none">>

\* C7: every recorded attempt is green if correct, otherwise orange if its
\* distance is below 5000 km, otherwise red; it is correct exactly when its
\* country is the target's, so green exactly when correct.
C7_Colors ==
    HasRound =>
        \A i \in 1..Len(Attempts) :
            LET att == Attempts[i]
            IN  /\ att.correct <=> (att.guess = Target.Country)
                /\ att.correct => att.color = "green"
                /\ (~att.correct /\ att.distance < 5000) => att.color = "orange"
                /\ (~att.correct /\ att.distance >= 5000) => att.color = "red"
                /\ att.color = "green" <=> att.correct

\* one round with a red, an orange and a green attempt
C7_Witness ==
    /\ HasRound
    /\ \E i, j, k \in 1..Len(Attempts) :
          /\ Attempts[i].color = "red" /\ Attempts[i].distance >= 5000
          /\ Attempts[j].color = "orange" /\ Attempts[j].distance > 0
          /\ Attempts[k].color = "green"

\* the requests that fail to deliver an image
Failures == {"no_infobox", "no_parse", "not_json", "conn_error"}

\* C8: once the image fetch of a run has failed, the fetch has yielded the
\* empty result, the run has not been aborted, and from the dish display on
\* the page shows the text-only label (so the guess block of that run is
\* still reached).
C8_FetchFailureRecovered ==
    (response \in Failures /\ pc # "waiting")
        => /\ ~exception
           /\ img_url = ""
           /\ pc \in {"guess", "render", "final", "idle"} => dish_label = "text"

\* a click on the guess button in an active round, at the start of its run
GuessPending ==
    pc = "start" /\ button = "Adivinar" /\ HasRound /\ ~Finished

\* the guess block of the run of that click has run
GuessApplied == pc = "render" /\ button = "Adivinar"

\* the run of that click was ended by an exception of the image fetch
RunAborted == pc = "idle" /\ button = "Adivinar" /\ exception

\* C9: a guess submitted in an active round is eventually applied to the
\* round, whether or not the image request of that run ever completes
\* (a run that the fetch ends with an exception does not count as blocked).
C9_GuessNotBlocked == GuessPending ~> (GuessApplied \/ RunAborted)

\* the message block of this run has run and its page stands
PageRendered == pc = "final" \/ (pc = "idle" /\ ~exception)

\* C12: on a rendered page of a finished round the terminal message is the
\* success indicator if some attempt is correct and otherwise the failure
\* message naming the target's country; on a rendered page of a round that
\* is not finished there is none, and no message is ever up for a round
\* that is not finished.
C12_TerminalMessage ==
    /\ (HasRound /\ PageRendered) =>
          IF Finished
          THEN IF AllIncorrect
               THEN message = <<"lose", Target.Country>>
               ELSE message = <<"success">>
          ELSE message = <<"none">>
    /\ (HasRound /\ message # <<"none">>) => Finished

\* a round won on its third attempt, with the success indicator up
C12_Witness ==
    /\ HasRound /\ Finished /\ pc = "idle" /\ Len(Attempts) = 3
    /\ ~AllIncorrect /\ message = <<"success">>

\* C13: the Play again button is on the page only when the round is
\* finished, and no step taken while the round is not finished deletes the
\* round, changes its target or shortens its attempts.
C13_RestartOnlyFinished ==
    /\ []((HasRound /\ "Play again" \in page) => Finished)
    /\ [][(HasRound /\ ~Finished)
             => (/\ HasRound'
                 /\ session_state'.answer_row = Target
                 /\ Len(session_state'.attempts) >= Len(Attempts))]_vars

\* the page of a round under way: the guess button, no Play again button
C13_Witness ==
    /\ HasRound /\ ~Finished /\ pc = "idle" /\ Len(Attempts) >= 1
    /\ "Adivinar" \in page /\ "Play again" \notin page

\* the guess block about to record a guess
GuessTransition ==
    pc = "guess" /\ button = "Adivinar" /\ HasRound /\ ~Finished

\* C17: a guess transition keeps the recorded attempts, in order, and adds
\* exactly one at the end; any other step leaves the attempts as they are,
\* except Play again, which deletes the round.
C17_AppendOnly ==
    [][HasRound =>
         \/ ~HasRound' /\ PlayAgainPressed
         \/ /\ HasRound' /\ ~GuessTransition
            /\ session_state'.attempts = Attempts
         \/ /\ HasRound' /\ GuessTransition
            /\ Len(session_state'.attempts) = Len(Attempts) + 1
            /\ SubSeq(session_state'.attempts, 1, Len(Attempts)) = Attempts]_vars

\* three attempts recorded one after the other, for different countries
C17_Witness ==
    /\ HasRound /\ pc = "render" /\ button = "Adivinar" /\ Len(Attempts) = 3
    /\ Attempts[1].guess # Attempts[2].guess
    /\ Attempts[2].guess # Attempts[3].guess

\* C18: while the round exists its target stays the row chosen at round
\* start, whatever the step (rerun, accepted or passed-over guess, failed
\* run); the round goes away only by Play again.
C18_TargetFixed ==
    [][HasRound =>
         IF HasRound' THEN session_state'.answer_row = Target
                      ELSE PlayAgainPressed]_vars

\* a round under way whose last run was ended by an exception
C18_Witness ==
    HasRound /\ pc = "idle" /\ exception /\ Len(Attempts) >= 2

\* C19: a correct attempt is always the last one recorded, so a round holds
\* at most one.
C19_CorrectOnlyLast ==
    HasRound =>
        \A i \in 1..Len(Attempts) : Attempts[i].correct => i = Len(Attempts)

\* a round won on its third attempt
C19_Witness ==
    /\ HasRound /\ Len(Attempts) = 3 /\ LastAttempt.correct
    /\ ~Attempts[1].correct /\ ~Attempts[2].correct

\* the contract of the dataset loader: rows exist, country names are unique,
\* coordinates are valid
LoaderContract ==
    /\ Len(df) > 0
    /\ \A i, j \in 1..Len(df) : df[i].Country = df[j].Country => i = j
    /\ \A i \in 1..Len(df) :
          /\ df[i].latitud >= -90 /\ df[i].latitud <= 90
          /\ df[i].longitud >= -180 /\ df[i].longitud <= 180

\* the eight arrows
Arrows == {dirs[i] : i \in 1..Len(dirs)}

\* C20: under the loader contract every recorded attempt carries the check
\* mark exactly when it is correct, and an incorrect attempt carries one of
\* the 8 arrows.
C20_DoneIffCorrect ==
    (LoaderContract /\ HasRound) =>
        \A i \in 1..Len(Attempts) :
            /\ (Attempts[i].direction = "done") <=> Attempts[i].correct
            /\ ~Attempts[i].correct => Attempts[i].direction \in Arrows

\* a call of bearing_to_cardinal on a bearing has returned
CardinalReturned ==
    geo.fn = "bearing_to_cardinal" /\ geo.result # <<>> /\ geo.args[1] # None

\* a call of calculate_bearing has returned
BearingReturned == geo.fn = "calculate_bearing" /\ geo.result # <<>>

\* C14: for a bearing b of [0, 360) the glyph is the arrow of the 45-degree
\* sector centred on its direction: N for b < 22.5 or b >= 337.5, and the
\* k-th of NE, E, SE, S, SW, W, NW for 45k - 22.5 <= b < 45k + 22.5; it is
\* never the check mark.
C14_GlyphSectors ==
    CardinalReturned =>
        LET b == geo.args[1]
            g == geo.result[1]
            named == <<"NE", "E", "SE", "S", "SW", "W", "NW">>
        IN  /\ g \in {"N", "NE", "E", "SE", "S", "SW", "W", "NW"}
            /\ g # "done"
            /\ (g = "N") <=> (b < 2250 \/ b >= 33750)
            /\ \A k \in 1..7 :
                  (g = named[k]) <=> (4500 * k - 2250 <= b /\ b < 4500 * k + 2250)

\* a bearing of [337.5, 360) mapped to N
C14_Witness ==
    CardinalReturned /\ geo.args[1] = 35000 /\ geo.result[1] = "N"

\* C15: for two distinct points calculate_bearing returns the initial
\* bearing from point 1 to point 2 in [0, 360), 0 = north, clockwise: 0 when
\* point 2 is due north of point 1 on its meridian, 90 when both are on the
\* equator and point 2 is to the east.
C15_BearingFromOneToTwo ==
    (BearingReturned /\ <<geo.args[1], geo.args[2]>> # <<geo.args[3], geo.args[4]>>) =>
        LET lat1 == geo.args[1]
            lon1 == geo.args[2]
            lat2 == geo.args[3]
            lon2 == geo.args[4]
            b == geo.result[1]
        IN  /\ b >= 0 /\ b < 36000
            /\ (lon1 = lon2 /\ lat2 > lat1) => b = 0
            /\ (lat1 = 0 /\ lat2 = 0 /\ lon2 > lon1 /\ lon2 - lon1 < 180) => b = 9000

\* C16: calculate_bearing returns None exactly when the two points are
\* identical, and bearing_to_cardinal(None) is the check mark.
C16_NoneIffIdentical ==
    /\ BearingReturned =>
          ((geo.result[1] = None)
              <=> (geo.args[1] = geo.args[3] /\ geo.args[2] = geo.args[4]))
    /\ (geo.fn = "bearing_to_cardinal" /\ geo.result # <<>> /\ geo.args[1] = None)
          => geo.result[1] = "done"

\* two points on one parallel, not identical: a bearing comes back
C16_Witness ==
    /\ BearingReturned
    /\ geo.args[1] = geo.args[3] /\ geo.args[2] # geo.args[4]
    /\ geo.result[1] # None

\* C11: a step of one session's run (set-up, guess submission, restart)
\* leaves the target, the attempts and the finished flag of every other
\* session as they are, in every interleaving: the round of a session
\* changes only in a step of that session's own run.
C11_SessionsIsolated ==
    [][\A s \in Sessions : (runs'[s] = runs[s]) => (store'[s] = store[s])]_vars

\* two rounds side by side: one finished by a correct guess, one under way
\* with an incorrect attempt
C11_Witness ==
    /\ store["s1"] # Empty /\ store["s2"] # Empty
    /\ store["s1"].finished /\ Len(store["s1"].attempts) = 1
    /\ ~store["s2"].finished /\ Len(store["s2"].attempts) = 1
    /\ runs["s1"].pc = "idle" /\ runs["s2"].pc = "idle"

====
